---- MODULE Spec2Model ----
(***************************************************************************)
(* A model of the platform registry of app.py: the record set kept in      *)
(* platforms.json, the module-level lock, and the five request handlers.   *)
(*                                                                         *)
(* Scheduling. Every handler is an `async def` that contains no `await`:   *)
(* once the event loop has started it, it runs to its return or raise      *)
(* before the loop starts another handler. register, update and delete     *)
(* call get_platforms() and _store_platforms() inside the handler, so both *)
(* run on the event loop. read and list take get_platforms through         *)
(* Depends: it is a plain `def`, which the framework runs on a worker      *)
(* thread, beside whatever handler the event loop is running; their        *)
(* bodies then run on the event loop. The lock is what orders a worker     *)
(* thread's load with the event loop's load and store.                     *)
(***************************************************************************)
EXTENDS Naturals, Sequences, FiniteSets, TLC

\* ------------------------------------------------------------------ values

DEFAULT_GROUP == "default"

\* The requests that may be in flight at the same time: "t1" is the one that
\* arrived when no other was in flight, "t2" one that arrived while "t1" was.
Threads == {"t1", "t2"}

\* In the concurrent specification, the number of handler calls of one run.
MaxCalls == 2

Ids == {"p1", "p2"}
Schemes == {"http://", "https://", "tcp://", "ipc://"}
Hosts == {"a", "b"}
Addresses == {"tcp://a", "tcp://b"}
Credentials == {"0123456789abcdef", "fedcba9876543210"}
Groups == {DEFAULT_GROUP, "g1"}

\* The request bodies as the transport delivers them, before validation: every
\* combination of the values above, one body with a malformed address and one
\* with a credential of fewer than 16 characters.
Bodies ==
    [id : Ids, address : Addresses, public_credentials : Credentials, group : Groups]
    \cup {[id |-> "p2", address |-> "bogus", public_credentials |-> "0123456789abcdef",
           group |-> DEFAULT_GROUP],
          [id |-> "p2", address |-> "10.0.0.1:5555", public_credentials |-> "short",
           group |-> DEFAULT_GROUP]}

NoPlatform == [id |-> "", address |-> "", public_credentials |-> "", group |-> ""]

\* ------------------------------------------------------------------ Platform

\* v.startswith(('http://', 'https://', 'tcp://', 'ipc://')), over the hosts of the model
startswith_scheme(v) == \E s \in Schemes : \E h \in Hosts : v = s \o h

\* re.match(r'^\d{1,3}\.\d{1,3}\.\d{1,3}\.\d{1,3}(:\d+)?$', v), over the literals of the model
match_ipv4(v) ==
    \E a \in {"10", "0"} : \E d \in {"0", "1"} : \E port \in {"", ":5555"} :
        v = a \o "." \o "0" \o "." \o "0" \o "." \o d \o port

address_must_be_valid(v) == startswith_scheme(v) \/ match_ipv4(v)

credential_must_be_valid(v) == ~(Len(v) < 16)

\* Platform(**p): the two field validators run; id and group are any string.
Platform(p) == address_must_be_valid(p.address) /\ credential_must_be_valid(p.public_credentials)

\* Variant: a dict that drops the group of the record
dict_without_group(p) ==
    [id |-> p.id, address |-> p.address, public_credentials |-> p.public_credentials,
     group |-> DEFAULT_GROUP]

\* p.dict()
dict(p) ==
    [id |-> p.id, address |-> p.address, public_credentials |-> p.public_credentials,
     group |-> p.group]

\* ------------------------------------------------------------------ the file

\* platforms.json: absent, or a text. The text is the JSON array of `records`
\* when `complete`; otherwise it is what a write left behind before the closing
\* bracket: the first records of an array, which json.load rejects.
NoFile == [exists |-> FALSE, records |-> <<>>, complete |-> FALSE]
Text(records, complete) == [exists |-> TRUE, records |-> records, complete |-> complete]

VARIABLES
    platform_file,   \* the content of platforms.json
    lock,            \* the holder of `lock`, or "free"
    running,         \* the request whose handler the event loop runs, or "none"
    pc,              \* per request: where it is ("idle": answered, none in flight)
    op,              \* per request: the handler it runs (or ran last)
    platform,        \* per request: the request body (platform / updated_platform)
    platform_id,     \* per request: the path parameter
    platforms,       \* per request: the handler's local list
    result,          \* per request: the response of its last completed call
    before,          \* per request: platforms.json as it was when the call arrived
    concurrent,      \* per request: the callers whose call overlapped with its call
    calls            \* the number of calls made so far (concurrent specification)

vars == <<platform_file, lock, running, pc, op, platform, platform_id, platforms, result, before,
          concurrent, calls>>

NoResult == [status |-> 0, detail |-> "", platform |-> NoPlatform, platforms |-> <<>>]
Response(status, detail, p, ps) ==
    [status |-> status, detail |-> detail, platform |-> p, platforms |-> ps]

\* _load_platforms(): the list, or the exception it raises
load_platforms(f) ==
    IF ~f.exists THEN [ok |-> TRUE, platforms |-> <<>>]
    ELSE IF ~f.complete THEN [ok |-> FALSE, platforms |-> <<>>]
    ELSE IF \E i \in 1..Len(f.records) : ~Platform(f.records[i])
         THEN [ok |-> FALSE, platforms |-> <<>>]
    ELSE [ok |-> TRUE, platforms |-> f.records]

\* ------------------------------------------------------------------ calls

AllIdle == \A u \in Threads : pc[u] = "idle"
InFlight == {u \in Threads : pc[u] # "idle"}

\* The name an arriving request gets
FirstIdle == IF pc["t1"] = "idle" THEN "t1" ELSE "t2"

\* A request arrives and is named t: what every handler's call records.
Arrive(t, o, p, id) ==
    /\ pc[t] = "idle"
    /\ t = FirstIdle
    /\ op' = [op EXCEPT ![t] = o]
    /\ platform' = [platform EXCEPT ![t] = p]
    /\ platform_id' = [platform_id EXCEPT ![t] = id]
    /\ platforms' = [platforms EXCEPT ![t] = <<>>]
    /\ before' = [before EXCEPT ![t] = platform_file]
    /\ concurrent' = [u \in Threads |->
                        IF u = t THEN InFlight
                        ELSE IF u \in InFlight THEN concurrent[u] \cup {t}
                        ELSE concurrent[u] \ {t}]
    /\ UNCHANGED <<platform_file, lock, running>>

\* The request body is parsed into a Platform before the handler runs; a body
\* that fails a validator is answered 422 and the handler is not entered.
\* A valid request waits for the event loop to start its handler.
Enter(t, p) ==
    IF Platform(p)
    THEN /\ pc' = [pc EXCEPT ![t] = "queued"]
         /\ result' = [result EXCEPT ![t] = NoResult]
    ELSE /\ pc' = pc
         /\ result' = [result EXCEPT ![t] = Response(422, "validation", NoPlatform, <<>>)]

\* POST /platform
call_register(t, p) == Arrive(t, "register", p, "") /\ Enter(t, p)

\* PUT /platform/{platform_id}
call_update(t, id, p) == Arrive(t, "update", p, id) /\ Enter(t, p)

\* DELETE /platform/{platform_id}
call_delete(t, id) ==
    /\ Arrive(t, "delete", NoPlatform, id)
    /\ pc' = [pc EXCEPT ![t] = "queued"]
    /\ result' = [result EXCEPT ![t] = NoResult]

\* GET /platform/{platform_id}: Depends(get_platforms) runs first, on a worker thread
call_read(t, id) ==
    /\ Arrive(t, "read", NoPlatform, id)
    /\ pc' = [pc EXCEPT ![t] = "get_platforms"]
    /\ result' = [result EXCEPT ![t] = NoResult]

\* GET /platforms: Depends(get_platforms) runs first, on a worker thread
call_list(t) ==
    /\ Arrive(t, "list", NoPlatform, "")
    /\ pc' = [pc EXCEPT ![t] = "get_platforms"]
    /\ result' = [result EXCEPT ![t] = NoResult]

\* ------------------------------------------------------------------ steps

\* Variant: handlers that the event loop does not serialise (declared `def`, they
\* would run on worker threads, several at a time)
event_loop_shared == TRUE

\* `async def` without `await`: the event loop starts a handler only when it runs none
event_loop_free == running = "none"

\* The event loop starts the handler of a register, update or delete request.
start_handler(t) ==
    /\ pc[t] = "queued"
    /\ event_loop_free
    /\ running' = t
    /\ pc' = [pc EXCEPT ![t] = "get_platforms"]
    /\ UNCHANGED <<platform_file, lock, op, platform, platform_id, platforms, result, before,
                   concurrent>>

\* The handler of request t returns or raises: the request is answered with r,
\* and the event loop is free again if it ran this handler.
Finish(t, r) ==
    /\ pc' = [pc EXCEPT ![t] = "idle"]
    /\ running' = IF running = t THEN "none" ELSE running
    /\ result' = [result EXCEPT ![t] = r]
    /\ platforms' = [platforms EXCEPT ![t] = <<>>]

\* Variant: get_platforms() that loads without taking the lock
get_platforms_unlocked(t) ==
    /\ pc[t] = "get_platforms"
    /\ LET l == load_platforms(platform_file) IN
        IF l.ok
        THEN /\ platforms' = [platforms EXCEPT ![t] = l.platforms]
             /\ pc' = [pc EXCEPT ![t] = "body"]
             /\ UNCHANGED <<result, running>>
        ELSE Finish(t, Response(500, "JSONDecodeError", NoPlatform, <<>>))
    /\ UNCHANGED <<platform_file, lock, op, platform, platform_id, before, concurrent>>

\* get_platforms(): `with lock: return _load_platforms()`. The lock is taken and
\* released within the step; an exception of the load leaves through the `with`.
get_platforms(t) ==
    /\ pc[t] = "get_platforms"
    /\ lock = "free"
    /\ LET l == load_platforms(platform_file) IN
        IF l.ok
        THEN /\ platforms' = [platforms EXCEPT ![t] = l.platforms]
             /\ pc' = [pc EXCEPT ![t] = "body"]
             /\ UNCHANGED <<result, running>>
        ELSE Finish(t, Response(500, "JSONDecodeError", NoPlatform, <<>>))
    /\ UNCHANGED <<platform_file, lock, op, platform, platform_id, before, concurrent>>

\* Variant: the idempotence test of line 128 never matches
never_same_platform(p, itr) == FALSE

\* line 128: the candidate equals a stored record in id, address and credential
same_platform(p, itr) ==
    p.id = itr.id /\ p.address = itr.address /\ p.public_credentials = itr.public_credentials

\* Variant: the duplicate-id check of line 132 left out
no_duplicate_id(ps, p) == FALSE

\* line 132
duplicate_id(ps, p) == \E i \in 1..Len(ps) : ps[i].id = p.id

\* Variant: the duplicate-address check of line 136 left out
no_duplicate_address(ps, p) == FALSE

\* line 136
duplicate_address(ps, p) == \E i \in 1..Len(ps) : ps[i].address = p.address

\* Variant: a check that finds no duplicate credential
no_duplicate_public_credentials(ps, p) == FALSE

\* line 140
duplicate_public_credentials(ps, p) ==
    \E i \in 1..Len(ps) : ps[i].public_credentials = p.public_credentials

\* What register_platform returns on the idempotent path: `return platform`
register_returns(p, itr) == p

\* The body of register_platform after get_platforms()
register_platform(t) ==
    /\ pc[t] = "body" /\ op[t] = "register"
    /\ LET ps == platforms[t]
           p == platform[t]
           S(x) == same_platform(p, x)
       IN
        IF \E k \in 1..Len(ps) : S(ps[k])
        THEN LET i == CHOOSE i \in 1..Len(ps) : S(ps[i]) /\ \A j \in 1..(i-1) : ~S(ps[j])
             IN Finish(t, Response(201, "", register_returns(p, ps[i]), <<>>))
        ELSE IF duplicate_id(ps, p)
        THEN Finish(t, Response(400, "id", NoPlatform, <<>>))
        ELSE IF duplicate_address(ps, p)
        THEN Finish(t, Response(400, "address", NoPlatform, <<>>))
        ELSE IF duplicate_public_credentials(ps, p)
        THEN Finish(t, Response(400, "public_credentials", NoPlatform, <<>>))
        ELSE /\ platforms' = [platforms EXCEPT ![t] = Append(ps, p)]
             /\ pc' = [pc EXCEPT ![t] = "store"]
             /\ UNCHANGED <<result, running>>
    /\ UNCHANGED <<platform_file, lock, op, platform, platform_id, before, concurrent>>

\* lines 154-157: the first platform of the list with the id, or 404
read_returns(ps, id) ==
    IF \E k \in 1..Len(ps) : ps[k].id = id
    THEN LET i == CHOOSE i \in 1..Len(ps) :
                    ps[i].id = id /\ \A j \in 1..(i-1) : ps[j].id # id
         IN Response(200, "", ps[i], <<>>)
    ELSE Response(404, "not found", NoPlatform, <<>>)

\* read_platform
read_platform(t) ==
    /\ pc[t] = "body" /\ op[t] = "read"
    /\ event_loop_free
    /\ Finish(t, read_returns(platforms[t], platform_id[t]))
    /\ UNCHANGED <<platform_file, lock, op, platform, platform_id, before, concurrent>>

\* Variant: the test of line 171 left out
id_never_changes(updated_platform, id) == FALSE

\* line 171: the id of the body must be the id of the path
id_changes(updated_platform, id) == updated_platform.id # id

\* The body of update_platform after get_platforms()
update_platform(t) ==
    /\ pc[t] = "body" /\ op[t] = "update"
    /\ LET ps == platforms[t]
           M(x) == x.id = platform_id[t]
       IN
        IF \E k \in 1..Len(ps) : M(ps[k])
        THEN LET i == CHOOSE i \in 1..Len(ps) : M(ps[i]) /\ \A j \in 1..(i-1) : ~M(ps[j])
             IN IF id_changes(platform[t], platform_id[t])
                THEN Finish(t, Response(400, "Cannot change platform ID", NoPlatform, <<>>))
                ELSE /\ platforms' = [platforms EXCEPT ![t] = [ps EXCEPT ![i] = platform[t]]]
                     /\ pc' = [pc EXCEPT ![t] = "store"]
                     /\ UNCHANGED <<result, running>>
        ELSE Finish(t, Response(404, "not found", NoPlatform, <<>>))
    /\ UNCHANGED <<platform_file, lock, op, platform, platform_id, before, concurrent>>

\* Variant: the filter of line 190 keeps every platform
keeps_all(p, id) == TRUE

\* line 190: `if p.id != platform_id`
keeps(p, id) == p.id # id

\* The body of delete_platform after get_platforms()
delete_platform(t) ==
    /\ pc[t] = "body" /\ op[t] = "delete"
    /\ LET ps == platforms[t]
           K(x) == keeps(x, platform_id[t])
           kept == SelectSeq(ps, K)
       IN
        IF Len(kept) = Len(ps)
        THEN Finish(t, Response(404, "not found", NoPlatform, <<>>))
        ELSE /\ platforms' = [platforms EXCEPT ![t] = kept]
             /\ pc' = [pc EXCEPT ![t] = "store"]
             /\ UNCHANGED <<result, running>>
    /\ UNCHANGED <<platform_file, lock, op, platform, platform_id, before, concurrent>>

\* list_platforms
list_platforms(t) ==
    /\ pc[t] = "body" /\ op[t] = "list"
    /\ event_loop_free
    /\ Finish(t, Response(200, "", NoPlatform, platforms[t]))
    /\ UNCHANGED <<platform_file, lock, op, platform, platform_id, before, concurrent>>

\* ------------------------------------------------------------------ _store_platforms

\* platforms_json = [p.dict() for p in platforms]
\* Variant: the array written in reverse order
platforms_json_reversed(ps) == [i \in 1..Len(ps) |-> dict(ps[Len(ps) + 1 - i])]

platforms_json(ps) == [i \in 1..Len(ps) |-> dict(ps[i])]

\* What the handler returns once _store_platforms has returned
Returned(t) ==
    CASE op[t] = "register" -> Response(201, "", platform[t], <<>>)
      [] op[t] = "update" -> Response(200, "", platform[t], <<>>)
      [] OTHER -> Response(200, "deleted successfully", NoPlatform, <<>>)

\* `with lock:` of _store_platforms
store_platforms_lock(t) ==
    /\ pc[t] = "store"
    /\ lock = "free"
    /\ lock' = t
    /\ pc' = [pc EXCEPT ![t] = "open"]
    /\ UNCHANGED <<platform_file, running, op, platform, platform_id, platforms, result, before,
                   concurrent>>

\* open(platform_file, "w"): the file is created or truncated to nothing
store_platforms_open(t) ==
    /\ pc[t] = "open"
    /\ platform_file' = Text(<<>>, FALSE)
    /\ pc' = [pc EXCEPT ![t] = "dump"]
    /\ UNCHANGED <<lock, running, op, platform, platform_id, platforms, result, before, concurrent>>

\* open(platform_file, "w") raises (the path cannot be written): nothing is
\* changed, the lock is released by the `with`, the handler answers 500
store_platforms_open_fails(t) ==
    /\ pc[t] = "open"
    /\ lock' = "free"
    /\ Finish(t, Response(500, "IOError", NoPlatform, <<>>))
    /\ UNCHANGED <<platform_file, op, platform, platform_id, before, concurrent>>

\* json.dump(platforms_json, f, indent=2) completes and both `with` are left
store_platforms_dump(t) ==
    /\ pc[t] = "dump"
    /\ platform_file' = Text(platforms_json(platforms[t]), TRUE)
    /\ lock' = "free"
    /\ Finish(t, Returned(t))
    /\ UNCHANGED <<op, platform, platform_id, before, concurrent>>

\* Variant: a json.dump that raises and leaves the lock held
store_platforms_dump_fails_holding(t) ==
    /\ pc[t] = "dump"
    /\ \E k \in 0..Len(platforms[t]) :
        platform_file' = Text(SubSeq(platforms_json(platforms[t]), 1, k), FALSE)
    /\ UNCHANGED lock
    /\ Finish(t, Response(500, "IOError", NoPlatform, <<>>))
    /\ UNCHANGED <<op, platform, platform_id, before, concurrent>>

\* json.dump raises part-way, after k whole records reached the file
store_platforms_dump_fails(t) ==
    /\ pc[t] = "dump"
    /\ \E k \in 0..Len(platforms[t]) :
        platform_file' = Text(SubSeq(platforms_json(platforms[t]), 1, k), FALSE)
    /\ lock' = "free"
    /\ Finish(t, Response(500, "IOError", NoPlatform, <<>>))
    /\ UNCHANGED <<op, platform, platform_id, before, concurrent>>

\* ------------------------------------------------------------------ specifications

TypeInit ==
    /\ lock = "free"
    /\ running = "none"
    /\ pc = [t \in Threads |-> "idle"]
    /\ op = [t \in Threads |-> ""]
    /\ platform = [t \in Threads |-> NoPlatform]
    /\ platform_id = [t \in Threads |-> ""]
    /\ platforms = [t \in Threads |-> <<>>]
    /\ result = [t \in Threads |-> NoResult]
    /\ before = [t \in Threads |-> NoFile]
    /\ concurrent = [t \in Threads |-> {}]
    /\ calls = 0

\* A record an earlier run of the service has left in platforms.json
Stored0 ==
    [id |-> "p1", address |-> "tcp://a", public_credentials |-> "0123456789abcdef",
     group |-> DEFAULT_GROUP]

\* The process starts with no platforms.json, or with the one an earlier run left.
Init == TypeInit /\ platform_file \in {NoFile, Text(<<Stored0>>, TRUE)}

\* The process starts with an empty store.
SeqInit == TypeInit /\ platform_file = NoFile

\* The bodies of the requests of the concurrent specification: those of the default group
RaceBodies == {b \in Bodies : b.group = DEFAULT_GROUP}

\* One more call of the run
Counted == calls < MaxCalls /\ calls' = calls + 1

\* A call that arrives when every earlier request has been answered
Alone == AllIdle /\ UNCHANGED calls

\* Requests arrive while others are in flight; a run makes MaxCalls calls.
Next ==
    \E t \in Threads :
        \/ \E p \in RaceBodies : Counted /\ call_register(t, p)
        \/ \E id \in Ids : \E p \in RaceBodies : Counted /\ call_update(t, id, p)
        \/ \E id \in Ids : Counted /\ call_delete(t, id)
        \/ \E id \in Ids : Counted /\ call_read(t, id)
        \/ Counted /\ call_list(t)
        \/ start_handler(t) /\ UNCHANGED calls
        \/ get_platforms(t) /\ UNCHANGED calls
        \/ register_platform(t) /\ UNCHANGED calls
        \/ read_platform(t) /\ UNCHANGED calls
        \/ update_platform(t) /\ UNCHANGED calls
        \/ delete_platform(t) /\ UNCHANGED calls
        \/ list_platforms(t) /\ UNCHANGED calls
        \/ store_platforms_lock(t) /\ UNCHANGED calls
        \/ store_platforms_open(t) /\ UNCHANGED calls
        \/ store_platforms_open_fails(t) /\ UNCHANGED calls
        \/ store_platforms_dump(t) /\ UNCHANGED calls
        \/ store_platforms_dump_fails(t) /\ UNCHANGED calls

Spec == Init /\ [][Next]_vars

\* Calls are made one at a time: a call arrives only when no handler is running.
SeqNext ==
    \E t \in Threads :
        \/ \E p \in Bodies : Alone /\ call_register(t, p)
        \/ \E id \in Ids : \E p \in Bodies : Alone /\ call_update(t, id, p)
        \/ \E id \in Ids : Alone /\ call_delete(t, id)
        \/ \E id \in Ids : Alone /\ call_read(t, id)
        \/ Alone /\ call_list(t)
        \/ start_handler(t) /\ UNCHANGED calls
        \/ get_platforms(t) /\ UNCHANGED calls
        \/ register_platform(t) /\ UNCHANGED calls
        \/ read_platform(t) /\ UNCHANGED calls
        \/ update_platform(t) /\ UNCHANGED calls
        \/ delete_platform(t) /\ UNCHANGED calls
        \/ list_platforms(t) /\ UNCHANGED calls
        \/ store_platforms_lock(t) /\ UNCHANGED calls
        \/ store_platforms_open(t) /\ UNCHANGED calls
        \/ store_platforms_open_fails(t) /\ UNCHANGED calls
        \/ store_platforms_dump(t) /\ UNCHANGED calls
        \/ store_platforms_dump_fails(t) /\ UNCHANGED calls

SeqSpec == SeqInit /\ [][SeqNext]_vars

\* Only register is called, one call at a time.
RegisterNext ==
    \E t \in Threads :
        \/ \E p \in Bodies : Alone /\ call_register(t, p)
        \/ start_handler(t) /\ UNCHANGED calls
        \/ get_platforms(t) /\ UNCHANGED calls
        \/ register_platform(t) /\ UNCHANGED calls
        \/ store_platforms_lock(t) /\ UNCHANGED calls
        \/ store_platforms_open(t) /\ UNCHANGED calls
        \/ store_platforms_open_fails(t) /\ UNCHANGED calls
        \/ store_platforms_dump(t) /\ UNCHANGED calls
        \/ store_platforms_dump_fails(t) /\ UNCHANGED calls

RegisterSpec == SeqInit /\ [][RegisterNext]_vars

\* Request bodies whose id is well formed ("p1"), empty, or holds a space
IdBodies ==
    [id : {"p1", "", "p 1"}, address : Addresses, public_credentials : Credentials,
     group : {DEFAULT_GROUP}]

\* register and update are called with the bodies of IdBodies, one call at a time.
IdNext ==
    \E t \in Threads :
        \/ \E p \in IdBodies : Alone /\ call_register(t, p)
        \/ \E p \in IdBodies : Alone /\ call_update(t, p.id, p)
        \/ start_handler(t) /\ UNCHANGED calls
        \/ get_platforms(t) /\ UNCHANGED calls
        \/ register_platform(t) /\ UNCHANGED calls
        \/ update_platform(t) /\ UNCHANGED calls
        \/ store_platforms_lock(t) /\ UNCHANGED calls
        \/ store_platforms_open(t) /\ UNCHANGED calls
        \/ store_platforms_open_fails(t) /\ UNCHANGED calls
        \/ store_platforms_dump(t) /\ UNCHANGED calls
        \/ store_platforms_dump_fails(t) /\ UNCHANGED calls

IdSpec == SeqInit /\ [][IdNext]_vars

\* One step of request t, whichever the event loop or its worker thread can take
Step(t) ==
    /\ \/ start_handler(t)
       \/ get_platforms(t)
       \/ register_platform(t)
       \/ read_platform(t)
       \/ update_platform(t)
       \/ delete_platform(t)
       \/ list_platforms(t)
       \/ store_platforms_lock(t)
       \/ store_platforms_open(t)
       \/ store_platforms_open_fails(t)
       \/ store_platforms_dump(t)
       \/ store_platforms_dump_fails(t)
    /\ UNCHANGED calls

\* The event loop runs a queued handler once it is free, a thread blocked on
\* the lock gets it once it stays free, and a running handler goes on
Fairness == \A t \in Threads : WF_vars(Step(t))

\* The bodies of the requests of the fair specification: one address and one
\* credential, under either id, and the malformed bodies
FairBodies ==
    {b \in RaceBodies : b.address # "tcp://b" /\ b.public_credentials # "fedcba9876543210"}

FairNext ==
    \E t \in Threads :
        \/ \E p \in FairBodies : Counted /\ call_register(t, p)
        \/ \E id \in Ids : \E p \in FairBodies : Counted /\ call_update(t, id, p)
        \/ \E id \in Ids : Counted /\ call_delete(t, id)
        \/ \E id \in Ids : Counted /\ call_read(t, id)
        \/ Counted /\ call_list(t)
        \/ start_handler(t) /\ UNCHANGED calls
        \/ get_platforms(t) /\ UNCHANGED calls
        \/ register_platform(t) /\ UNCHANGED calls
        \/ read_platform(t) /\ UNCHANGED calls
        \/ update_platform(t) /\ UNCHANGED calls
        \/ delete_platform(t) /\ UNCHANGED calls
        \/ list_platforms(t) /\ UNCHANGED calls
        \/ store_platforms_lock(t) /\ UNCHANGED calls
        \/ store_platforms_open(t) /\ UNCHANGED calls
        \/ store_platforms_open_fails(t) /\ UNCHANGED calls
        \/ store_platforms_dump(t) /\ UNCHANGED calls
        \/ store_platforms_dump_fails(t) /\ UNCHANGED calls

FairSpec == Init /\ [][FairNext]_vars /\ Fairness

\* ------------------------------------------------------------------ properties

\* The records of platforms.json
Live == platform_file.records

Indices(ps) == 1..Len(ps)

UniqueId(ps) == \A i, j \in Indices(ps) : i # j => ps[i].id # ps[j].id
UniqueAddress(ps) == \A i, j \in Indices(ps) : i # j => ps[i].address # ps[j].address
UniqueCredential(ps) ==
    \A i, j \in Indices(ps) : i # j => ps[i].public_credentials # ps[j].public_credentials

Contains(ps, p) == \E i \in Indices(ps) : ps[i] = p

\* Two records agree in id, address and credential
SameTriple(p, q) ==
    p.id = q.id /\ p.address = q.address /\ p.public_credentials = q.public_credentials

\* Request t has been answered, and the answer is a success
Mutating(t) == op[t] \in {"register", "update", "delete"}
Answered(t) == pc[t] = "idle" /\ result[t].status # 0
Succeeded(t) == pc[t] = "idle" /\ result[t].status \in {200, 201}

\* The requests t and u were in flight at the same time
Overlapped(t, u) == t # u /\ u \in concurrent[t]

\* The store a request found when it arrived held a record with the triple of its body
MatchedBefore(t) ==
    /\ load_platforms(before[t]).ok
    /\ \E i \in Indices(before[t].records) : SameTriple(platform[t], before[t].records[i])

FirstMatch(t) ==
    LET ps == before[t].records
        i == CHOOSE i \in Indices(ps) :
                /\ SameTriple(platform[t], ps[i])
                /\ \A j \in 1..(i-1) : ~SameTriple(platform[t], ps[j])
    IN ps[i]

\* C1: two register requests in flight at the same time, with the same address
\* and different ids and credentials, are never both answered with success, and
\* their two records are never both in the record set.
C1_ConcurrentRegistersCollide ==
    \A t, u \in Threads :
        ( /\ Overlapped(t, u)
          /\ op[t] = "register" /\ op[u] = "register"
          /\ Answered(t) /\ Answered(u)
          /\ platform[t].address = platform[u].address
          /\ platform[t].id # platform[u].id
          /\ platform[t].public_credentials # platform[u].public_credentials )
        => /\ ~(Succeeded(t) /\ Succeeded(u))
           /\ ~(Contains(Live, platform[t]) /\ Contains(Live, platform[u]))

\* Two overlapping registers with one address have both been answered: one with
\* 201, the other with the address conflict.
C1_Witness ==
    /\ Overlapped("t1", "t2")
    /\ op["t1"] = "register" /\ op["t2"] = "register"
    /\ platform["t1"].address = platform["t2"].address
    /\ platform["t1"].id # platform["t2"].id
    /\ platform["t1"].public_credentials # platform["t2"].public_credentials
    /\ pc["t1"] = "idle" /\ result["t1"].status = 201
    /\ pc["t2"] = "idle" /\ result["t2"].status = 400 /\ result["t2"].detail = "address"
    /\ Contains(Live, platform["t1"])

\* A mutation is between its load and the end of its store
Between(t) == Mutating(t) /\ pc[t] \in {"body", "store", "open", "dump"}

\* The id a mutation is about
Target(t) == IF op[t] = "delete" THEN platform_id[t] ELSE platform[t].id

\* The effect of a successful mutation is in the record set
Applied(t) ==
    IF op[t] = "delete"
    THEN \A i \in Indices(Live) : Live[i].id # platform_id[t]
    ELSE \E i \in Indices(Live) : SameTriple(platform[t], Live[i])

\* C2: at most one mutation is between its load and its store at any time, and
\* of two successful mutations that were in flight together (on different ids)
\* neither overwrites the other: the effects of both are in the record set.
C2_MutationsAtomic ==
    \A t, u \in Threads :
        t # u =>
            /\ ~(Between(t) /\ Between(u))
            /\ ( /\ Overlapped(t, u)
                 /\ Mutating(t) /\ Mutating(u)
                 /\ Succeeded(t) /\ Succeeded(u)
                 /\ Target(t) # Target(u) )
               => (Applied(t) /\ Applied(u))

\* Two overlapping registers of records that share no field have both succeeded
\* and both records are stored.
C2_Witness ==
    /\ Overlapped("t1", "t2")
    /\ op["t1"] = "register" /\ op["t2"] = "register"
    /\ Succeeded("t1") /\ Succeeded("t2")
    /\ platform["t1"].id # platform["t2"].id
    /\ ~before["t1"].exists /\ ~before["t2"].exists
    /\ platform_file.complete
    /\ Contains(Live, platform["t1"]) /\ Contains(Live, platform["t2"])

\* C3: under register calls alone, made one at a time from an empty store, the
\* record set never holds two records with one id, one address or one credential.
C3_RegisterKeepsUnique ==
    UniqueId(Live) /\ UniqueAddress(Live) /\ UniqueCredential(Live)

\* Two records are stored and a third register has been refused.
C3_Witness ==
    /\ platform_file.complete /\ Len(Live) = 2
    /\ pc["t1"] = "idle" /\ op["t1"] = "register" /\ result["t1"].status = 400

\* C4 (I1): after every completed operation of a sequence of register, update
\* and delete calls, no two records have the same id.
C4_IdUnique == AllIdle => UniqueId(Live)

\* An update has succeeded on a store of two records.
C4_Witness ==
    /\ pc["t1"] = "idle" /\ op["t1"] = "update" /\ result["t1"].status = 200
    /\ platform_file.complete /\ Len(Live) = 2
    /\ Contains(Live, platform["t1"]) /\ ~Contains(before["t1"].records, platform["t1"])

\* C5 (I2): after every completed operation of a sequence of register, update
\* and delete calls, no two records have the same address.
C5_AddressUnique == AllIdle => UniqueAddress(Live)

\* C6 (I3): after every completed operation of a sequence of register, update
\* and delete calls, no two records have the same credential.
C6_CredentialUnique == AllIdle => UniqueCredential(Live)

\* C7: a register, update or delete whose write failed leaves the record set
\* that later reads load exactly as it was before the operation.
C7_FailedWriteRollsBack ==
    \A t \in Threads :
        (pc[t] = "idle" /\ Mutating(t) /\ result[t].status = 500 /\ result[t].detail = "IOError")
        => /\ load_platforms(platform_file).ok
           /\ load_platforms(platform_file) = load_platforms(before[t])

\* C8: platforms.json never holds an empty, truncated or partial text.
C8_SaveAtomic == platform_file.exists => platform_file.complete

\* C9: a register whose id, address and credential equal those of a stored
\* record succeeds and leaves platforms.json as it was, with exactly one record
\* of that triple.
C9_RegisterIdempotent ==
    \A t \in Threads :
        (pc[t] = "idle" /\ op[t] = "register" /\ MatchedBefore(t))
        => /\ result[t].status = 201
           /\ platform_file = before[t]
           /\ Cardinality({i \in Indices(Live) : SameTriple(platform[t], Live[i])}) = 1

\* A stored record was registered again, with another group, next to a second record.
C9_Witness ==
    /\ pc["t1"] = "idle" /\ op["t1"] = "register" /\ MatchedBefore("t1")
    /\ result["t1"].status = 201
    /\ Len(Live) = 2
    /\ ~Contains(Live, platform["t1"])

\* C10: on the idempotent path register returns the stored record, in every
\* field including group.
C10_ReturnsStoredRecord ==
    \A t \in Threads :
        (pc[t] = "idle" /\ op[t] = "register" /\ MatchedBefore(t) /\ result[t].status = 201)
        => result[t].platform = FirstMatch(t)

\* What a get of id answers on the store as it is now
GetNow(id) ==
    LET l == load_platforms(platform_file)
    IN IF l.ok THEN read_returns(l.platforms, id)
       ELSE Response(500, "JSONDecodeError", NoPlatform, <<>>)

\* C11: after a register that answered success, a get of the candidate's id
\* returns a record equal in every field to the record the register returned.
C11_GetReturnsRegistered ==
    \A t \in Threads :
        (pc[t] = "idle" /\ op[t] = "register" /\ result[t].status = 201)
        => GetNow(platform[t].id) = Response(200, "", result[t].platform, <<>>)

\* The store a request found when it arrived could be loaded
LoadedBefore(t) == load_platforms(before[t]).ok

\* The store a request found when it arrived held a record with this id
PresentBefore(t, id) ==
    LoadedBefore(t) /\ \E i \in Indices(before[t].records) : before[t].records[i].id = id

\* ps without the records of this id, in the order of ps
Without(ps, id) == LET K(x) == x.id # id IN SelectSeq(ps, K)

\* The delete of request t has removed its id and nothing else
DeleteDone(t) ==
    /\ result[t].status = 200
    /\ GetNow(platform_id[t]).status = 404
    /\ platform_file = Text(Without(before[t].records, platform_id[t]), TRUE)

\* C12 as stated: a delete of a present id succeeds, after which get answers
\* not-found and the other records are listed in their earlier order; a delete
\* of an absent id answers not-found and leaves the store as it was.
C12_DeleteAlwaysSucceeds ==
    \A t \in Threads :
        (pc[t] = "idle" /\ op[t] = "delete" /\ LoadedBefore(t))
        => IF PresentBefore(t, platform_id[t])
           THEN DeleteDone(t)
           ELSE result[t].status = 404 /\ platform_file = before[t]

\* C12, amended: a delete of a present id whose write does not raise succeeds,
\* after which get answers not-found and the other records are listed in their
\* earlier order (a write that raises is answered 500); a delete of an absent
\* id answers not-found and leaves the store as it was.
C12_DeleteRemoves ==
    \A t \in Threads :
        (pc[t] = "idle" /\ op[t] = "delete" /\ LoadedBefore(t))
        => IF PresentBefore(t, platform_id[t])
           THEN \/ DeleteDone(t)
                \/ result[t].status = 500 /\ result[t].detail = "IOError"
           ELSE result[t].status = 404 /\ platform_file = before[t]

\* The first of two stored records has been deleted; the second is what is left.
C12_Witness ==
    /\ pc["t1"] = "idle" /\ op["t1"] = "delete" /\ result["t1"].status = 200
    /\ Len(before["t1"].records) = 2 /\ before["t1"].records[1].id = platform_id["t1"]
    /\ Live = <<before["t1"].records[2]>>

\* C13: an update whose body carries another id than the path is refused with
\* 400 when the path id names a stored record, and the store is left as it was;
\* an update of an id that names no stored record is answered not-found,
\* whatever the id of the body. (The body is a record that passed validation.)
C13_UpdateIdPinned ==
    \A t \in Threads :
        (pc[t] = "idle" /\ op[t] = "update" /\ Platform(platform[t]) /\ LoadedBefore(t))
        => /\ (PresentBefore(t, platform_id[t]) /\ platform[t].id # platform_id[t])
              => /\ result[t].status = 400
                 /\ result[t].detail = "Cannot change platform ID"
                 /\ platform_file = before[t]
           /\ ~PresentBefore(t, platform_id[t])
              => /\ result[t].status = 404
                 /\ platform_file = before[t]

\* An update of a stored id with a body of another, unused id has been refused.
C13_Witness ==
    /\ pc["t1"] = "idle" /\ op["t1"] = "update"
    /\ PresentBefore("t1", platform_id["t1"])
    /\ platform["t1"].id # platform_id["t1"]
    /\ ~PresentBefore("t1", platform["t1"].id)
    /\ result["t1"].status = 400
    /\ platform_file = before["t1"]

\* C14: a register that is no full match is refused with a conflict on id if a
\* stored record has its id; else on address if one has its address; else on
\* credential if one has its credential; it succeeds only if none has.
C14_ConflictOrder ==
    \A t \in Threads :
        (pc[t] = "idle" /\ op[t] = "register" /\ Platform(platform[t]) /\ LoadedBefore(t)
            /\ ~MatchedBefore(t))
        => LET ps == before[t].records
               p == platform[t]
               hasId == \E i \in Indices(ps) : ps[i].id = p.id
               hasAddress == \E i \in Indices(ps) : ps[i].address = p.address
               hasCredential ==
                   \E i \in Indices(ps) : ps[i].public_credentials = p.public_credentials
           IN /\ hasId => result[t].status = 400 /\ result[t].detail = "id"
              /\ (~hasId /\ hasAddress)
                 => result[t].status = 400 /\ result[t].detail = "address"
              /\ (~hasId /\ ~hasAddress /\ hasCredential)
                 => result[t].status = 400 /\ result[t].detail = "public_credentials"
              /\ result[t].status = 201 => (~hasId /\ ~hasAddress /\ ~hasCredential)

\* The candidate has the id of one stored record and the address and the
\* credential of the other: the conflict named is the one on id.
C14_Witness ==
    /\ pc["t1"] = "idle" /\ op["t1"] = "register" /\ ~MatchedBefore("t1")
    /\ LoadedBefore("t1") /\ Len(before["t1"].records) = 2
    /\ platform["t1"].id = before["t1"].records[2].id
    /\ platform["t1"].address = before["t1"].records[1].address
    /\ platform["t1"].public_credentials = before["t1"].records[1].public_credentials
    /\ result["t1"].status = 400 /\ result["t1"].detail = "id"

\* An id as the data model wants it: not empty, and without a character that
\* is neither alphanumeric nor an underscore nor a hyphen (over the pieces
\* the ids of the model are made of)
ValidId(id) ==
    /\ Len(id) > 0
    /\ ~\E x \in {"", "p", "1", "2"} : \E c \in {" ", "/"} : \E y \in {"", "p", "1", "2"} :
          id = x \o c \o y

\* C15: every stored record has a valid id, and a register or update whose
\* body has an invalid id fails: it is never answered with success.
C15_StoredIdsValid ==
    /\ \A i \in Indices(Live) : ValidId(Live[i].id)
    /\ \A t \in Threads :
          (pc[t] = "idle" /\ op[t] \in {"register", "update"} /\ ~ValidId(platform[t].id))
          => result[t].status \notin {200, 201}

\* Request t is a get or a list
Reading(t) == op[t] \in {"read", "list"}

\* C16: a get or list never loads platforms.json while a store is between its
\* truncation and the end of its write; the list it loads, and the list a
\* list() returns, is the whole array of a complete platforms.json (or empty
\* when there is no file).
C16_ReadsWholeSnapshots ==
    [][\A t \in Threads :
          /\ (Reading(t) /\ pc[t] = "get_platforms" /\ pc'[t] # "get_platforms")
             => /\ \A u \in Threads : pc[u] # "dump"
                /\ pc'[t] = "body"
                   => /\ platform_file.exists => platform_file.complete
                      /\ platforms'[t] = platform_file.records
          /\ (op[t] = "list" /\ pc[t] = "body" /\ pc'[t] = "idle")
             => result'[t] = Response(200, "", NoPlatform, platforms[t])
      ]_vars

\* A list that arrived while a register was in flight, before its store, has
\* returned the set with the new record.
C16_Witness ==
    /\ pc["t2"] = "idle" /\ op["t2"] = "list" /\ result["t2"].status = 200
    /\ Overlapped("t2", "t1") /\ op["t1"] = "register" /\ Succeeded("t1")
    /\ before["t2"] = before["t1"] /\ before["t2"] # platform_file
    /\ result["t2"].platforms = Live
    /\ Contains(Live, platform["t1"])

\* C17: a list returns the stored records in their stored order; a register
\* that stores puts the candidate after every record there was; a successful
\* update leaves every position as it was, the replacement at the position of
\* the record it replaces; a successful delete leaves the other records in
\* their order.
C17_InsertionOrder ==
    \A t \in Threads :
        LET old == before[t].records IN
        /\ (op[t] = "list" /\ Answered(t) /\ result[t].status = 200)
           => result[t].platforms = old /\ Live = old
        /\ (op[t] = "register" /\ Answered(t) /\ result[t].status = 201 /\ ~MatchedBefore(t))
           => Live = Append(old, platform[t])
        /\ (op[t] = "update" /\ Answered(t) /\ result[t].status = 200)
           => /\ Len(Live) = Len(old)
              /\ \E i \in Indices(old) :
                    /\ old[i].id = platform_id[t] /\ Live[i] = platform[t]
                    /\ \A j \in Indices(old) : j # i => Live[j] = old[j]
        /\ (op[t] = "delete" /\ Answered(t) /\ result[t].status = 200)
           => Live = Without(old, platform_id[t])

\* A list has returned two records, the one registered later in second place.
C17_Witness ==
    \E t \in Threads :
        /\ op[t] = "list" /\ Answered(t) /\ result[t].status = 200
        /\ Len(result[t].platforms) = 2
        /\ result[t].platforms[1] = Stored0 /\ result[t].platforms[2] # Stored0

\* C18: after an update answered with success, a get of the id returns the
\* replacement in every field, the store holds as many records as before, and
\* every record with another id is as it was.
C18_UpdateReplacesWholesale ==
    \A t \in Threads :
        (op[t] = "update" /\ Answered(t) /\ result[t].status = 200)
        => LET old == before[t].records IN
           /\ result[t].platform = platform[t]
           /\ GetNow(platform_id[t]) = Response(200, "", platform[t], <<>>)
           /\ Len(Live) = Len(old)
           /\ \A j \in Indices(old) : old[j].id # platform_id[t] => Live[j] = old[j]

\* An update of one of two records has succeeded with a replacement that
\* differs from the old record in address, credential and group.
C18_Witness ==
    \E t \in Threads :
        /\ op[t] = "update" /\ Answered(t) /\ result[t].status = 200
        /\ Len(Live) = 2
        /\ \E i \in Indices(before[t].records) :
              LET o == before[t].records[i] IN
              /\ o.id = platform_id[t]
              /\ o.address # platform[t].address
              /\ o.public_credentials # platform[t].public_credentials
              /\ o.group # platform[t].group

\* Record q shares its id, its address or its credential with record p
Clashes(p, q) ==
    p.id = q.id \/ p.address = q.address \/ p.public_credentials = q.public_credentials

\* C19: a register answered with a conflict has left platforms.json as it
\* found it and never reached a store (a register at a store has a candidate
\* that clashes with no record it found); only register, update and delete
\* reach a store; a get or a list that was answered has left platforms.json as
\* it found it.
C19_ConflictAndReadsWriteNothing ==
    \A t \in Threads :
        /\ (op[t] = "register" /\ Answered(t) /\ result[t].status = 400)
           => platform_file = before[t]
        /\ pc[t] \in {"store", "open", "dump"}
           => /\ Mutating(t)
              /\ op[t] = "register"
                 => \A i \in Indices(before[t].records) :
                        ~Clashes(platform[t], before[t].records[i])
        /\ (Reading(t) /\ Answered(t)) => platform_file = before[t]
        /\ (Reading(t) /\ pc[t] # "idle") => platform_file = before[t]

\* A register whose candidate has the credential of a stored record, under a
\* new id and a new address, was answered with a conflict, the file as before.
C19_Witness ==
    \E t \in Threads :
        /\ op[t] = "register" /\ Answered(t)
        /\ result[t].status = 400 /\ result[t].detail = "public_credentials"
        /\ before[t].exists /\ Len(before[t].records) >= 1
        /\ platform_file = before[t]

\* C20: a request that is about to ask for the lock, or that holds none of the
\* code (waiting, in its handler body, or answered), does not hold the lock;
\* and every request made is eventually answered, with a result or an error.
C20_EveryCallReturns ==
    /\ [](\A t \in Threads :
            pc[t] \in {"idle", "queued", "get_platforms", "body", "store"} => lock # t)
    /\ \A t \in Threads : (pc[t] # "idle") ~> (pc[t] = "idle" /\ result[t].status # 0)

\* A store raised inside json.dump and its request was answered 500; the lock
\* is free again, and a request that was in flight with it has been answered.
C20_Witness ==
    \E t, u \in Threads :
        /\ Mutating(t) /\ Answered(t) /\ result[t].status = 500 /\ result[t].detail = "IOError"
        /\ platform_file.exists /\ ~platform_file.complete
        /\ Overlapped(u, t) /\ Answered(u)
        /\ lock = "free"

====
